---- MODULE Spec2Model ----
(***************************************************************************)
(* Request-admission pipeline of the sales API: rate limiter middleware,   *)
(* JWT authentication middleware, login handler and paginated sales        *)
(* handler, together with the counter store (Redis behind                  *)
(* rate-limiter-flexible) and the analytical store (DuckDB) they talk to.  *)
(*                                                                         *)
(* Time is a clock in ticks, TicksPerSecond ticks to the second, so that   *)
(* the truncation of Date.now() to whole seconds is visible.  Strings that *)
(* the code inspects character by character (startDate, page, pageSize)    *)
(* are tuples of one-character strings.                                    *)
(***************************************************************************)
EXTENDS Integers, Sequences, FiniteSets, TLC

VARIABLES
    clock,      \* Date.now(), in ticks
    redisUp,    \* whether the counter store answers
    buckets,    \* the counter store: <<keyPrefix, key>> -> [consumed, expireAt]
    reqs,       \* the requests in flight, one per slot
    issued,     \* history: the tokens issued, each with the tick and the login
                \* username of the 200 response that carried it
    windows,    \* history: per bucket, the window its consumptions fall in
    dwh,        \* the analytical store: the tables of dwh.main
    proc,       \* the process: running, shutting down (SIGTERM) or exited
    users       \* the credential table, loaded from users.json at startup

vars == <<clock, redisUp, buckets, reqs, issued, windows, dwh, proc, users>>

----------------------------------------------------------------------------
(* Bounds of the model *)

MaxReq == 2
TicksPerSecond == 2
FineTicks == 3
MaxTokens == 2
MaxOver == 1

(* Program constants *)

ExpiresInSeconds == 3600
DefaultRetryAfter == 60
DefaultPage == 1
DefaultPageSize == 100
MaxPageSize == 1000

(* Configuration: LOGIN_ATTEMPT, LOGIN_DURATION, SALE_ATTEMPT and          *)
(* SALE_DURATION are environment variables; the model runs a small         *)
(* configuration of them.                                                  *)
LoginAttempt == 2
LoginDuration == 1
SaleAttempt == 3
SaleDuration == 1

Slots == 1..MaxReq
HourTicks == ExpiresInSeconds * TicksPerSecond
MaxClock == HourTicks + FineTicks

Max(a, b) == IF a >= b THEN a ELSE b
Min(a, b) == IF a <= b THEN a ELSE b
CeilDiv(a, b) == (a + b - 1) \div b

----------------------------------------------------------------------------
(* config.ts *)

config ==
    [ jwtSecret     |-> "secret",
      loginAttempt  |-> LoginAttempt,
      loginDuration |-> LoginDuration,
      saleAttempt   |-> SaleAttempt,
      saleDuration  |-> SaleDuration ]

(* users.json as the README describes it: one user, admin / password123.   *)
(* A stored password is a bcrypt hash; Hash is one-way and injective here. *)
Hash(pw) == [bcrypt |-> pw]

usersFile == << [username |-> "admin", password |-> Hash("password123")] >>

Undefined == "<undefined>"

----------------------------------------------------------------------------
(* jsonwebtoken *)

NowSeconds(now) == now \div TicksPerSecond

\* Mutant: expiresIn: '1d'
JwtSignOneDay(username, secret, now) ==
    [ username |-> username,
      iat      |-> NowSeconds(now),
      exp      |-> NowSeconds(now) + 24 * ExpiresInSeconds,
      sig      |-> secret ]

\* jwt.sign({ username }, secret, { expiresIn: '1h' })
JwtSign(username, secret, now) ==
    [ username |-> username,
      iat      |-> NowSeconds(now),
      exp      |-> NowSeconds(now) + ExpiresInSeconds,
      sig      |-> secret ]

\* jwt.verify(token, secret): TRUE when it returns the payload, FALSE when it throws
JwtVerify(tok, secret, now) ==
    /\ tok.sig = secret
    /\ ~(NowSeconds(now) >= tok.exp)

NoToken == [username |-> "", iat |-> 0, exp |-> 0, sig |-> "<none>"]

----------------------------------------------------------------------------
(* An Authorization header, by what authHeader.split(' ') makes of it:     *)
(*   "none"        no header                       -> token undefined      *)
(*   "schemeOnly"  "Bearer"                        -> [1] is undefined     *)
(*   "emptyToken"  "Bearer "                       -> [1] is ""            *)
(*   "bare"        "<token>" without a scheme      -> [1] is undefined     *)
(*   "bearer"      "Bearer <token>"                -> [1] is the token     *)
HeaderShapes == {"none", "schemeOnly", "emptyToken", "bare", "bearer"}

\* const token = authHeader && authHeader.split(' ')[1];  !token
TokenMissing(auth) == auth.shape # "bearer"

\* Mutant: the two statuses the wrong way round
authenticateTokenSwapped(auth, now) ==
    IF TokenMissing(auth)
    THEN [status |-> 403, error |-> "Invalid or expired token", user |-> <<>>]
    ELSE IF JwtVerify(auth.tok, config.jwtSecret, now)
         THEN [status |-> 0, error |-> "", user |-> <<auth.tok>>]
         ELSE [status |-> 401, error |-> "Authentication token required", user |-> <<>>]

\* authenticateToken: the status it answers with (0: it calls next()) and req.user
\* Mutant: a login revokes the earlier tokens of its user
authenticateTokenLatestOnly(auth, now) ==
    IF TokenMissing(auth)
    THEN [status |-> 401, error |-> "Authentication token required", user |-> <<>>]
    ELSE IF /\ JwtVerify(auth.tok, config.jwtSecret, now)
            /\ \A i \in issued :
                   i.tok.username = auth.tok.username => i.tok.iat <= auth.tok.iat
         THEN [status |-> 0, error |-> "", user |-> <<auth.tok>>]
         ELSE [status |-> 403, error |-> "Invalid or expired token", user |-> <<>>]

authenticateToken(auth, now) ==
    IF TokenMissing(auth)
    THEN [status |-> 401, error |-> "Authentication token required", user |-> <<>>]
    ELSE IF JwtVerify(auth.tok, config.jwtSecret, now)
         THEN [status |-> 0, error |-> "", user |-> <<auth.tok>>]
         ELSE [status |-> 403, error |-> "Invalid or expired token", user |-> <<>>]

----------------------------------------------------------------------------
(* middleware/rate-limiter *)

\* Mutant: points and duration the wrong way round
loginLimiterSwapped ==
    [keyPrefix |-> "login_limit", points |-> config.loginDuration,
     duration |-> config.loginAttempt]

loginLimiter ==
    [keyPrefix |-> "login_limit", points |-> config.loginAttempt,
     duration |-> config.loginDuration]

salesLimiter ==
    [keyPrefix |-> "sales_limit", points |-> config.saleAttempt,
     duration |-> config.saleDuration]

Limiters == {loginLimiter, salesLimiter}

LimiterOf(prefix) == CHOOSE l \in Limiters : l.keyPrefix = prefix

\* Mutant: the key never carries the identity
LimiterKeyIpOnly(ip, user) == <<ip>>

\* const key = req.user ? `${ip}_${req.user.username}` : ip;
LimiterKey(ip, user) ==
    IF user # <<>> THEN <<ip, "_", user[1].username>> ELSE <<ip>>

NoReply == [kind |-> "none", consumedPoints |-> 0, msBeforeNext |-> 0]

\* The key of the counter store is alive until its expiry has passed.
Alive(b, now) == b \in DOMAIN buckets /\ ~(now > buckets[b].expireAt)

\* limiter.consume(key) as the counter store runs it, in one atomic step:
\* create the key with a time to live of `duration` if it is not there, add
\* one point, read the remaining time to live.
ConsumedAfter(b, now) ==
    IF Alive(b, now) THEN buckets[b].consumed + 1 ELSE 1

\* Mutant: every consumption starts the time to live afresh
ExpireAfterSliding(b, lim, now) == now + lim.duration * TicksPerSecond

ExpireAfter(b, lim, now) ==
    IF Alive(b, now) THEN buckets[b].expireAt
    ELSE now + lim.duration * TicksPerSecond

\* RateLimiterRes: resolved while consumedPoints <= points, rejected beyond
ConsumeReply(b, lim, now) ==
    [ kind           |-> IF ConsumedAfter(b, now) > lim.points THEN "reject" ELSE "ok",
      consumedPoints |-> ConsumedAfter(b, now),
      msBeforeNext   |-> ExpireAfter(b, lim, now) - now ]

ErrorReply == [kind |-> "error", consumedPoints |-> 0, msBeforeNext |-> 0]

\* retryAfter: Math.ceil(error.msBeforeNext / 1000) || 60
RetryAfter(msBeforeNext) ==
    IF CeilDiv(msBeforeNext, TicksPerSecond) = 0 THEN DefaultRetryAfter
    ELSE CeilDiv(msBeforeNext, TicksPerSecond)

\* Mutant: the catch block passes a rejected consume on to next()
LimiterOutcomeFailOpen(reply) ==
    IF reply.kind \in {"ok", "reject"}
    THEN [status |-> 0, error |-> "", retryAfter |-> 0]
    ELSE [status |-> 500, error |-> "Internal Server Error", retryAfter |-> 0]

\* Mutant: the catch block without its `instanceof Error` branch
LimiterOutcomeNoErrorBranch(reply) ==
    IF reply.kind = "ok"
    THEN [status |-> 0, error |-> "", retryAfter |-> 0]
    ELSE [status |-> 429, error |-> "Too Many Requests",
          retryAfter |-> RetryAfter(reply.msBeforeNext)]

\* What the middleware does with the outcome of `await limiter.consume(key)`:
\* status 0 is next()
LimiterOutcome(reply) ==
    IF reply.kind = "ok"
    THEN [status |-> 0, error |-> "", retryAfter |-> 0]
    ELSE IF reply.kind = "error"
         THEN [status |-> 500, error |-> "Internal Server Error", retryAfter |-> 0]
         ELSE [status |-> 429, error |-> "Too Many Requests",
               retryAfter |-> RetryAfter(reply.msBeforeNext)]

----------------------------------------------------------------------------
(* POST /login *)

LowerCase(name) == IF name = "Admin" THEN "admin" ELSE name

\* Mutant: the username is compared without regard to case
FindUserIgnoreCase(username) ==
    IF \E i \in 1..Len(users) : users[i].username = LowerCase(username)
    THEN <<users[CHOOSE i \in 1..Len(users) :
                    users[i].username = LowerCase(username)]>>
    ELSE <<>>

\* users.find((u) => u.username === username)
FindUser(username) ==
    IF \E i \in 1..Len(users) : users[i].username = username
    THEN <<users[CHOOSE i \in 1..Len(users) :
                    /\ users[i].username = username
                    /\ \A j \in 1..(i-1) : users[j].username # username]>>
    ELSE <<>>

\* bcrypt.compare(password, hash): "throws" when password is undefined
BcryptCompare(password, hash) ==
    IF password = Undefined THEN "throws"
    ELSE IF Hash(password) = hash THEN "true" ELSE "false"

----------------------------------------------------------------------------
(* GET /api/sales: query parameters.  A string is a tuple of characters;   *)
(* a parameter that is absent is <<>>, which every use below treats as the *)
(* empty string is treated (falsy, and parseInt gives NaN).                *)

Digits == {"0", "1", "2", "3", "4", "5", "6", "7", "8", "9"}

DigitVal(c) ==
    CASE c = "0" -> 0 [] c = "1" -> 1 [] c = "2" -> 2 [] c = "3" -> 3
      [] c = "4" -> 4 [] c = "5" -> 5 [] c = "6" -> 6 [] c = "7" -> 7
      [] c = "8" -> 8 [] c = "9" -> 9

IsDigit(c) == c \in Digits

Drop(s, n) == SubSeq(s, n + 1, Len(s))

RECURSIVE SkipSpaces(_)
SkipSpaces(s) == IF s # <<>> /\ s[1] = " " THEN SkipSpaces(Tail(s)) ELSE s

\* The length of the longest prefix of s made of digits
RECURSIVE DigitPrefix(_)
DigitPrefix(s) ==
    IF s # <<>> /\ IsDigit(s[1]) THEN 1 + DigitPrefix(Tail(s)) ELSE 0

RECURSIVE DigitsValue(_)
DigitsValue(s) ==
    IF s = <<>> THEN 0 ELSE 10 * DigitsValue(SubSeq(s, 1, Len(s) - 1)) + DigitVal(s[Len(s)])

NaN == [nan |-> TRUE, val |-> 0]

\* parseInt(string): leading blanks, an optional sign, then the longest run of
\* digits; NaN when there is no digit
parseInt(str) ==
    LET s    == SkipSpaces(str)
        neg  == s # <<>> /\ s[1] = "-"
        body == IF s # <<>> /\ s[1] \in {"-", "+"} THEN Tail(s) ELSE s
        n    == DigitPrefix(body)
        v    == DigitsValue(SubSeq(body, 1, n))
    IN  IF n = 0 THEN NaN
        ELSE [nan |-> FALSE, val |-> IF neg THEN 0 - v ELSE v]

\* x || d for a number x: NaN and 0 are falsy
OrDefault(x, d) == IF x.nan \/ x.val = 0 THEN d ELSE x.val

\* /\d{4}-\d{2}-\d{2}/ at position i of s
DateAt(s, i) ==
    /\ i >= 1 /\ i + 9 <= Len(s)
    /\ \A k \in {0, 1, 2, 3, 5, 6, 8, 9} : IsDigit(s[i + k])
    /\ s[i + 4] = "-"
    /\ s[i + 7] = "-"

\* /^\d{4}-\d{2}-\d{2}$/.test(startDate)
AnchoredDateTest(s) == Len(s) = 10 /\ DateAt(s, 1)

\* /\d{4}-\d{2}-\d{2}/.test(startDate)
UnanchoredDateTest(s) == \E i \in 1..Len(s) : DateAt(s, i)

\* The whole string is four digits, '-', two digits, '-', two digits
StrictDate(s) ==
    /\ Len(s) = 10
    /\ \A i \in 1..10 : IF i \in {5, 8} THEN s[i] = "-" ELSE s[i] \in Digits

DefaultStartDate == <<"1", "9", "0", "0", "-", "0", "1", "-", "0", "1">>

\* The sales handlers of the repository: src/index.ts (and its copy with the
\* Swagger setup) and the router of src/routes
SalesHandlers == {"index", "routes"}

DateTest(handler, s) ==
    IF handler = "index" THEN AnchoredDateTest(s) ELSE UnanchoredDateTest(s)

\* Parse and validate query parameters
ParsePage(raw) == Max(1, OrDefault(parseInt(raw), DefaultPage))

ParsePageSize(raw) ==
    Max(1, Min(MaxPageSize, OrDefault(parseInt(raw), DefaultPageSize)))

\* Mutant: the offset counts the requested page in
ParseQueryOffsetFromPage(in) ==
    [ startDate |-> IF in.startDate = <<>> THEN DefaultStartDate ELSE in.startDate,
      page      |-> ParsePage(in.page),
      pageSize  |-> ParsePageSize(in.pageSize),
      offset    |-> ParsePage(in.page) * ParsePageSize(in.pageSize) ]

ParseQuery(in) ==
    [ startDate |-> IF in.startDate = <<>> THEN DefaultStartDate ELSE in.startDate,
      page      |-> ParsePage(in.page),
      pageSize  |-> ParsePageSize(in.pageSize),
      offset    |-> (ParsePage(in.page) - 1) * ParsePageSize(in.pageSize) ]

NoQuery == [startDate |-> <<>>, page |-> 0, pageSize |-> 0, offset |-> 0]

----------------------------------------------------------------------------
(* The analytical store.  A date is the number yyyymmdd.                   *)

\* ?::DATE
DateCast(s) ==
    IF StrictDate(s)
       /\ DigitsValue(SubSeq(s, 6, 7)) \in 1..12
       /\ DigitsValue(SubSeq(s, 9, 10)) \in 1..31
    THEN [ok |-> TRUE,
          date |-> DigitsValue(SubSeq(s, 1, 4)) * 10000
                   + DigitsValue(SubSeq(s, 6, 7)) * 100
                   + DigitsValue(SubSeq(s, 9, 10))]
    ELSE [ok |-> FALSE, date |-> 0]

\* CAST(dim_date.date_id AS VARCHAR): the date as YYYY-MM-DD
DigitChar(n) ==
    CASE n = 0 -> "0" [] n = 1 -> "1" [] n = 2 -> "2" [] n = 3 -> "3"
      [] n = 4 -> "4" [] n = 5 -> "5" [] n = 6 -> "6" [] n = 7 -> "7"
      [] n = 8 -> "8" [] n = 9 -> "9"

DateVarchar(d) ==
    LET y  == d \div 10000
        m  == (d \div 100) % 100
        dd == d % 100
    IN  << DigitChar(y \div 1000), DigitChar((y \div 100) % 10),
           DigitChar((y \div 10) % 10), DigitChar(y % 10), "-",
           DigitChar(m \div 10), DigitChar(m % 10), "-",
           DigitChar(dd \div 10), DigitChar(dd % 10) >>

\* The tables of dwh.main that the two queries read
fct_sale == dwh.fct_sale

dim_client == dwh.dim_client

dim_employee == dwh.dim_employee

dim_region == dwh.dim_region

dim_date == dwh.dim_date

\* FROM fct_sale INNER JOIN dim_date ON sale_date = date_id WHERE date_id >= ?
CountJoin(startDate) ==
    { j \in (1..Len(fct_sale)) \X dim_date :
        /\ fct_sale[j[1]].sale_date = j[2].date_id
        /\ j[2].date_id >= startDate }

\* SELECT COUNT(*)::INT as total FROM ... : countResult[0].total
countQuery(startDate) == Cardinality(CountJoin(startDate))

\* Math.ceil(totalRecords / pageSize)
TotalPages(totalRecords, pageSize) == CeilDiv(totalRecords, pageSize)

\* FROM fct_sale INNER JOIN dim_client ... INNER JOIN dim_employee ...
\* INNER JOIN dim_region ... INNER JOIN dim_date ... WHERE date_id >= ?
PageJoin(startDate) ==
    { j \in (1..Len(fct_sale)) \X dim_client \X dim_employee \X dim_region \X dim_date :
        /\ fct_sale[j[1]]._client_hk = j[2]._client_hk
        /\ fct_sale[j[1]]._employee_hk = j[3]._employee_hk
        /\ fct_sale[j[1]]._region_hk = j[4]._region_hk
        /\ fct_sale[j[1]].sale_date = j[5].date_id
        /\ j[5].date_id >= startDate }

\* The SELECT list: one RawSaleRecord per row of the join
RawRow(j) ==
    [ _client_bk      |-> j[2]._client_bk,
      client_name     |-> j[2].client_name,
      _employee_bk    |-> j[3]._employee_bk,
      employee_name   |-> j[3].employee_name,
      department_name |-> j[3].department_name,
      region_name     |-> j[4].region_name,
      sale_date       |-> DateVarchar(j[5].date_id),
      formatted_date  |-> j[5].formatted_date,
      month_year      |-> j[5].month_year,
      sale_amount     |-> fct_sale[j[1]].sale_amount ]

\* ORDER BY dim_date.date_id ASC: the arrangements of the rows in ascending
\* date order.  The sort key is the date alone, so rows of the same date may
\* come out in either order, and not in the same order from one execution
\* to the next.
DateOrders(rows) ==
    { o \in [1..Cardinality(rows) -> rows] :
        /\ \A a, b \in 1..Cardinality(rows) : a # b => o[a] # o[b]
        /\ \A a, b \in 1..Cardinality(rows) : a < b => o[a][5].date_id <= o[b][5].date_id }

\* LIMIT ? OFFSET ? of one arrangement
LimitOffset(o, limit, offset) ==
    [ k \in 1..Max(0, Min(limit, Len(o) - offset)) |-> o[offset + k] ]

\* Mutant: the query without its OFFSET
pageQueryNoOffset(startDate, limit, offset) ==
    { [ k \in DOMAIN LimitOffset(o, limit, 0) |->
            RawRow(LimitOffset(o, limit, 0)[k]) ] :
        o \in DateOrders(PageJoin(startDate)) }

\* SELECT ... WHERE date_id >= ?::DATE ORDER BY date_id ASC LIMIT ? OFFSET ?:
\* the results an execution of the query can give
pageQuery(startDate, limit, offset) ==
    { [ k \in DOMAIN LimitOffset(o, limit, offset) |->
            RawRow(LimitOffset(o, limit, offset)[k]) ] :
        o \in DateOrders(PageJoin(startDate)) }

\* Mutant: the department is taken from the region
transformSaleRecordWrongDepartment(raw) ==
    [ client     |-> [id |-> raw._client_bk, name |-> raw.client_name],
      employee   |-> [id |-> raw._employee_bk, name |-> raw.employee_name,
                      department |-> raw.region_name],
      date       |-> [id |-> raw.sale_date, formatted |-> raw.formatted_date,
                      monthYear |-> raw.month_year],
      region     |-> raw.region_name,
      saleAmount |-> raw.sale_amount ]

\* transformSaleRecord
transformSaleRecord(raw) ==
    [ client     |-> [id |-> raw._client_bk, name |-> raw.client_name],
      employee   |-> [id |-> raw._employee_bk, name |-> raw.employee_name,
                      department |-> raw.department_name],
      date       |-> [id |-> raw.sale_date, formatted |-> raw.formatted_date,
                      monthYear |-> raw.month_year],
      region     |-> raw.region_name,
      saleAmount |-> raw.sale_amount ]

\* Mutant: the amount of a record runs on from the records before it
MapTransformRunningTotal(rawRecords) ==
    [ i \in DOMAIN rawRecords |->
        [ transformSaleRecord(rawRecords[i]) EXCEPT
            !.saleAmount = IF i = 1 THEN rawRecords[i].sale_amount
                           ELSE rawRecords[i - 1].sale_amount + rawRecords[i].sale_amount ] ]

\* rawRecords.map(transformSaleRecord)
MapTransform(rawRecords) ==
    [ i \in DOMAIN rawRecords |-> transformSaleRecord(rawRecords[i]) ]

----------------------------------------------------------------------------
(* Contents of the analytical store *)

Client(hk, bk, name) == [_client_hk |-> hk, _client_bk |-> bk, client_name |-> name]

Employee(hk, bk, name, dept) ==
    [_employee_hk |-> hk, _employee_bk |-> bk, employee_name |-> name,
     department_name |-> dept]

Region(hk, name) == [_region_hk |-> hk, region_name |-> name]

Date(id, formatted, monthYear) ==
    [date_id |-> id, formatted_date |-> formatted, month_year |-> monthYear]

Sale(date, client, employee, region, amount) ==
    [sale_date |-> date, _client_hk |-> client, _employee_hk |-> employee,
     _region_hk |-> region, sale_amount |-> amount]

SampleDims ==
    [ dim_client   |-> {Client("c1", "1001", "Acme"), Client("c2", "1002", "Globex")},
      dim_employee |-> {Employee("e1", "2001", "Kim", "Sales")},
      dim_region   |-> {Region("r1", "North")},
      dim_date     |-> {Date(20230607, "7 June 2023", "June 2023"),
                        Date(20240101, "1 January 2024", "January 2024"),
                        Date(20240314, "14 March 2024", "March 2024")} ]

StoreOf(sales) ==
    [ fct_sale     |-> sales,
      dim_client   |-> SampleDims.dim_client,
      dim_employee |-> SampleDims.dim_employee,
      dim_region   |-> SampleDims.dim_region,
      dim_date     |-> SampleDims.dim_date ]

\* Three sales on three days
SampleStore ==
    StoreOf(<< Sale(20240314, "c1", "e1", "r1", 1500),
               Sale(20240101, "c1", "e1", "r1", 20),
               Sale(20230607, "c2", "e1", "r1", 7) >>)

\* Two sales on the same day
TiedStore ==
    StoreOf(<< Sale(20240101, "c1", "e1", "r1", 20),
               Sale(20240101, "c2", "e1", "r1", 35),
               Sale(20240314, "c1", "e1", "r1", 1500) >>)

\* A sale whose client has no row in dim_client
OrphanStore ==
    StoreOf(<< Sale(20240314, "c1", "e1", "r1", 1500),
               Sale(20240101, "c9", "e1", "r1", 20) >>)

EmptyStore == StoreOf(<<>>)

StoreContents == {SampleStore, TiedStore, OrphanStore, EmptyStore}

----------------------------------------------------------------------------
(* Requests and responses *)

Input(route, handler, ip, username, password, auth, startDate, page, pageSize) ==
    [ route |-> route, handler |-> handler, ip |-> ip,
      username |-> username, password |-> password, auth |-> auth,
      startDate |-> startDate, page |-> page, pageSize |-> pageSize ]

NoAuth == [shape |-> "none", tok |-> NoToken]

NoInput == Input("", "", "", Undefined, Undefined, NoAuth, <<>>, <<>>, <<>>)

NoResp ==
    [ status |-> 0, error |-> "", token |-> <<>>, retryAfter |-> 0,
      pagination |-> <<>>, data |-> <<>>, body |-> "" ]

\* res.status(status).json({ error })
ErrorResp(status, error) == [NoResp EXCEPT !.status = status, !.error = error]

Idle ==
    [ pc |-> "idle", in |-> NoInput, limiter |-> "", key |-> <<>>, user |-> <<>>,
      lim |-> NoReply, win |-> 0, nth |-> 0, admitted |-> FALSE,
      found |-> <<>>, q |-> NoQuery, total |-> 0, nCount |-> 0, nPage |-> 0,
      raw |-> <<>>, dbErr |-> "", nConsume |-> 0, resp |-> NoResp ]

NoWindow == [id |-> 0, start |-> 0, count |-> 0, admitted |-> 0]

\* Mutant: one bucket for each limiter, whoever the caller
BucketPrefixOnly(r) == <<reqs[r].limiter, <<>>>>

Bucket(r) == <<reqs[r].limiter, reqs[r].key>>

\* The window of bucket b that a consumption at `now` falls in: the one the
\* first consumption opened, for `duration` seconds, or else a new one
InWindow(b, lim, now) ==
    /\ b \in DOMAIN windows
    /\ now <= windows[b].start + lim.duration * TicksPerSecond

WindowAfter(b, lim, now) ==
    IF InWindow(b, lim, now)
    THEN [windows[b] EXCEPT !.count = @ + 1]
    ELSE [id |-> now + 1, start |-> now, count |-> 1, admitted |-> 0]

Put(f, k, v) == [x \in DOMAIN f \cup {k} |-> IF x = k THEN v ELSE f[x]]

----------------------------------------------------------------------------
(* The state machine *)

\* The process before any signal: `pending` and `inflight` are filled in by
\* the SIGTERM handler
Running == [phase |-> "running", pending |-> {}, inflight |-> {}]

InitWith(store) ==
    /\ clock = 0
    /\ redisUp = TRUE
    /\ buckets = <<>>
    /\ reqs = [r \in Slots |-> Idle]
    /\ issued = {}
    /\ windows = <<>>
    /\ dwh = store
    /\ proc = Running
    /\ users = usersFile

Init == InitWith(SampleStore)

\* Any of the sample contents of the analytical store
InitStore == \E store \in StoreContents : InitWith(store)

Respond(r, resp) ==
    reqs' = [reqs EXCEPT ![r].pc = "done", ![r].resp = resp]

\* The first part of createRateLimiterMiddleware(limiter), up to the await:
\* the key is computed and the consume is sent to the counter store
SendConsume(r, in, limiter, user) ==
    reqs' = [reqs EXCEPT ![r] =
                [Idle EXCEPT !.pc = "consume", !.in = in, !.nConsume = 1,
                             !.limiter = limiter.keyPrefix, !.user = user,
                             !.key = LimiterKey(in.ip, user)]]

\* app.post('/login', createRateLimiterMiddleware(loginLimiter), ...)
ArriveLogin(r, in) ==
    /\ reqs[r].pc = "idle"
    /\ in.route = "login"
    /\ SendConsume(r, in, loginLimiter, <<>>)
    /\ UNCHANGED <<clock, redisUp, buckets, issued, windows, dwh, proc, users>>

\* Mutant: the limiter middleware registered before authenticateToken
ArriveSalesLimiterFirst(r, in) ==
    /\ reqs[r].pc = "idle"
    /\ in.route = "sales"
    /\ SendConsume(r, in, salesLimiter, <<>>)
    /\ UNCHANGED <<clock, redisUp, buckets, issued, windows, dwh, proc, users>>

\* app.get('/api/sales', authenticateToken, createRateLimiterMiddleware(salesLimiter), ...)
ArriveSales(r, in) ==
    /\ reqs[r].pc = "idle"
    /\ in.route = "sales"
    /\ LET a == authenticateToken(in.auth, clock)
       IN  IF a.status # 0
           THEN reqs' = [reqs EXCEPT ![r] =
                            [Idle EXCEPT !.pc = "done", !.in = in,
                                         !.resp = ErrorResp(a.status, a.error)]]
           ELSE SendConsume(r, in, salesLimiter, a.user)
    /\ UNCHANGED <<clock, redisUp, buckets, issued, windows, dwh, proc, users>>

\* Mutant: the health check behind the login limiter
ArriveHealthLimited(r, in) ==
    /\ reqs[r].pc = "idle"
    /\ in.route = "health"
    /\ SendConsume(r, in, loginLimiter, <<>>)
    /\ UNCHANGED <<clock, redisUp, buckets, issued, windows, dwh, proc, users>>

\* app.get('/healthcheck', (_req, res) => { res.send('ok'); })
ArriveHealth(r, in) ==
    /\ reqs[r].pc = "idle"
    /\ in.route = "health"
    /\ reqs' = [reqs EXCEPT ![r] =
                    [Idle EXCEPT !.pc = "done", !.in = in,
                                 !.resp = [NoResp EXCEPT !.status = 200, !.body = "ok"]]]
    /\ UNCHANGED <<clock, redisUp, buckets, issued, windows, dwh, proc, users>>

\* express.json(): a POST /login has been accepted and its body is being read
AcceptLogin(r, in) ==
    /\ reqs[r].pc = "idle"
    /\ in.route = "login"
    /\ reqs' = [reqs EXCEPT ![r] = [Idle EXCEPT !.pc = "body", !.in = in]]
    /\ UNCHANGED <<clock, redisUp, buckets, issued, windows, dwh, proc, users>>

\* The body is read: the request enters createRateLimiterMiddleware(loginLimiter)
BodyParsed(r) ==
    /\ reqs[r].pc = "body"
    /\ SendConsume(r, reqs[r].in, loginLimiter, <<>>)
    /\ UNCHANGED <<clock, redisUp, buckets, issued, windows, dwh, proc, users>>

\* The connection to the counter store still carries the consume of r: it
\* does until redis.quit() is called, and for the commands sent before it
Connected(r) == proc.phase = "running" \/ r \in proc.pending

\* The counter store runs the consume (or the connection fails)
StoreConsume(r) ==
    /\ reqs[r].pc = "consume"
    /\ LET b   == Bucket(r)
           lim == LimiterOf(reqs[r].limiter)
       IN  IF redisUp /\ Connected(r)
           THEN /\ ConsumedAfter(b, clock) <= lim.points + MaxOver
                /\ buckets' = Put(buckets, b,
                                  [consumed |-> ConsumedAfter(b, clock),
                                   expireAt |-> ExpireAfter(b, lim, clock)])
                /\ windows' = Put(windows, b, WindowAfter(b, lim, clock))
                /\ reqs' = [reqs EXCEPT ![r].pc = "limited",
                                        ![r].lim = ConsumeReply(b, lim, clock),
                                        ![r].win = WindowAfter(b, lim, clock).id,
                                        ![r].nth = WindowAfter(b, lim, clock).count]
           ELSE /\ reqs' = [reqs EXCEPT ![r].pc = "limited", ![r].lim = ErrorReply]
                /\ UNCHANGED <<buckets, windows>>
    /\ UNCHANGED <<clock, redisUp, issued, dwh, proc, users>>

\* POST /login handler, up to `await bcrypt.compare`
LoginHandler(r) ==
    LET user == FindUser(reqs[r].in.username)
    IN  IF user = <<>>
        THEN reqs' = [reqs EXCEPT ![r].pc = "done", ![r].admitted = TRUE,
                         ![r].resp = ErrorResp(401, "Invalid password or user")]
        ELSE reqs' = [reqs EXCEPT ![r].pc = "bcrypt", ![r].admitted = TRUE,
                         ![r].found = user]

\* GET /api/sales handler, up to the count query's callback
SalesHandler(r) ==
    LET q == ParseQuery(reqs[r].in)
    IN  IF ~DateTest(reqs[r].in.handler, q.startDate)
        THEN reqs' = [reqs EXCEPT ![r].pc = "done", ![r].admitted = TRUE,
                         ![r].q = q,
                         ![r].resp = ErrorResp(400,
                              "Invalid date format. Please use YYYY-MM-DD")]
        ELSE reqs' = [reqs EXCEPT ![r].pc = "count", ![r].admitted = TRUE,
                         ![r].q = q, ![r].nCount = @ + 1]

\* Mutant: a consume that did not resolve is tried once more
LimiterResumeRetry(r) ==
    /\ reqs[r].pc = "limited"
    /\ LET o == LimiterOutcome(reqs[r].lim)
           b == Bucket(r)
       IN  IF o.status = 0
           THEN /\ IF reqs[r].in.route = "login" THEN LoginHandler(r) ELSE SalesHandler(r)
                /\ windows' = IF b \in DOMAIN windows /\ windows[b].id = reqs[r].win
                              THEN [windows EXCEPT ![b].admitted = @ + 1]
                              ELSE windows
           ELSE /\ IF reqs[r].nConsume < 2
                   THEN reqs' = [reqs EXCEPT ![r].pc = "consume", ![r].lim = NoReply,
                                             ![r].nConsume = @ + 1]
                   ELSE Respond(r, [ErrorResp(o.status, o.error)
                                       EXCEPT !.retryAfter = o.retryAfter])
                /\ UNCHANGED windows
    /\ UNCHANGED <<clock, redisUp, buckets, issued, dwh, proc, users>>

\* The rest of the rate limiter middleware, once the consume has settled
LimiterResume(r) ==
    /\ reqs[r].pc = "limited"
    /\ LET o == LimiterOutcome(reqs[r].lim)
           b == Bucket(r)
       IN  IF o.status = 0
           THEN /\ IF reqs[r].in.route = "login" THEN LoginHandler(r) ELSE SalesHandler(r)
                /\ windows' = IF b \in DOMAIN windows /\ windows[b].id = reqs[r].win
                              THEN [windows EXCEPT ![b].admitted = @ + 1]
                              ELSE windows
           ELSE /\ Respond(r, [ErrorResp(o.status, o.error)
                                  EXCEPT !.retryAfter = o.retryAfter])
                /\ UNCHANGED windows
    /\ UNCHANGED <<clock, redisUp, buckets, issued, dwh, proc, users>>

\* Mutant: a successful login gives the caller's points back
BcryptDoneResetsBucket(r) ==
    /\ reqs[r].pc = "bcrypt"
    /\ LET res == BcryptCompare(reqs[r].in.password, reqs[r].found[1].password)
           tok == JwtSign(reqs[r].in.username, config.jwtSecret, clock)
       IN  IF res = "throws"
           THEN /\ Respond(r, ErrorResp(500, "Internal server error"))
                /\ UNCHANGED <<issued, buckets>>
           ELSE IF res = "false"
                THEN /\ Respond(r, ErrorResp(401, "Invalid password or user"))
                     /\ UNCHANGED <<issued, buckets>>
                ELSE /\ Respond(r, [NoResp EXCEPT !.status = 200, !.token = <<tok>>])
                     /\ issued' = IF Cardinality(issued) < MaxTokens
                                  THEN issued \cup {[tok |-> tok, at |-> clock,
                                                     login |-> reqs[r].in.username]}
                                  ELSE issued
                     /\ buckets' = [b \in DOMAIN buckets \ {Bucket(r)} |-> buckets[b]]
    /\ UNCHANGED <<clock, redisUp, windows, dwh, proc, users>>

\* Mutant: a failed password comparison removes the account
BcryptDoneLockout(r) ==
    /\ reqs[r].pc = "bcrypt"
    /\ LET res == BcryptCompare(reqs[r].in.password, reqs[r].found[1].password)
           tok == JwtSign(reqs[r].in.username, config.jwtSecret, clock)
       IN  IF res = "throws"
           THEN /\ Respond(r, ErrorResp(500, "Internal server error"))
                /\ UNCHANGED <<issued, users>>
           ELSE IF res = "false"
                THEN /\ Respond(r, ErrorResp(401, "Invalid password or user"))
                     /\ users' = SelectSeq(users,
                                    LAMBDA u : u.username # reqs[r].in.username)
                     /\ UNCHANGED issued
                ELSE /\ Respond(r, [NoResp EXCEPT !.status = 200, !.token = <<tok>>])
                     /\ issued' = IF Cardinality(issued) < MaxTokens
                                  THEN issued \cup {[tok |-> tok, at |-> clock,
                                                     login |-> reqs[r].in.username]}
                                  ELSE issued
                     /\ UNCHANGED users
    /\ UNCHANGED <<clock, redisUp, buckets, windows, dwh, proc>>

\* POST /login handler, from the result of bcrypt.compare on
BcryptDone(r) ==
    /\ reqs[r].pc = "bcrypt"
    /\ LET res == BcryptCompare(reqs[r].in.password, reqs[r].found[1].password)
           tok == JwtSign(reqs[r].in.username, config.jwtSecret, clock)
       IN  IF res = "throws"
           THEN /\ Respond(r, ErrorResp(500, "Internal server error"))
                /\ UNCHANGED issued
           ELSE IF res = "false"
                THEN /\ Respond(r, ErrorResp(401, "Invalid password or user"))
                     /\ UNCHANGED issued
                ELSE /\ Respond(r, [NoResp EXCEPT !.status = 200, !.token = <<tok>>])
                     /\ issued' = IF Cardinality(issued) < MaxTokens
                                  THEN issued \cup {[tok |-> tok, at |-> clock,
                                                     login |-> reqs[r].in.username]}
                                  ELSE issued
    /\ UNCHANGED <<clock, redisUp, buckets, windows, dwh, proc, users>>

\* err as the store reports it: the detail that console.error logs
StoreErrorDetail(castOk) ==
    IF castOk THEN "IO Error: cannot open database file dwh"
    ELSE "Conversion Error: date field value out of range"

\* Mutant: the store's error is passed on to the caller
CountErrorResponseLeaky(err) == ErrorResp(500, err)

\* res.status(500).json({ error: 'Database error during count execution' })
CountErrorResponse(err) == ErrorResp(500, "Database error during count execution")

\* res.status(500).json({ error: 'Database error during execution' })
PageErrorResponse(err) == ErrorResp(500, "Database error during execution")

\* The count query's callback
CountDone(r, fails) ==
    /\ reqs[r].pc = "count"
    /\ LET d == DateCast(reqs[r].q.startDate)
       IN  IF fails \/ ~d.ok
           THEN reqs' = [reqs EXCEPT
                            ![r].pc = "done",
                            ![r].dbErr = StoreErrorDetail(d.ok),
                            ![r].resp = CountErrorResponse(StoreErrorDetail(d.ok))]
           ELSE reqs' = [reqs EXCEPT ![r].pc = "page",
                                     ![r].total = countQuery(d.date),
                                     ![r].nPage = @ + 1]
    /\ UNCHANGED <<clock, redisUp, buckets, issued, windows, dwh, proc, users>>

Pagination(r) ==
    [ currentPage  |-> reqs[r].q.page,
      pageSize     |-> reqs[r].q.pageSize,
      totalRecords |-> reqs[r].total,
      totalPages   |-> TotalPages(reqs[r].total, reqs[r].q.pageSize) ]

\* Mutant: an empty result is answered as not found
PageResponseEmptyNotFound(handler, result, pagination) ==
    IF Len(result) = 0
    THEN ErrorResp(404, "No records found")
    ELSE [NoResp EXCEPT !.status = 200, !.data = MapTransform(result),
                        !.pagination = <<pagination>>]

\* What the page query's callback answers for a result: src/index.ts has a
\* branch for the empty result, the router of src/routes maps whatever came
PageResponse(handler, result, pagination) ==
    IF handler = "index" /\ Len(result) = 0
    THEN [NoResp EXCEPT !.status = 200, !.data = <<>>,
                        !.pagination = <<pagination>>]
    ELSE [NoResp EXCEPT !.status = 200, !.data = MapTransform(result),
                        !.pagination = <<pagination>>]

\* The page query's callback
PageDone(r, fails) ==
    /\ reqs[r].pc = "page"
    /\ LET d == DateCast(reqs[r].q.startDate)
       IN  IF fails
           THEN reqs' = [reqs EXCEPT
                            ![r].pc = "done",
                            ![r].dbErr = StoreErrorDetail(TRUE),
                            ![r].resp = PageErrorResponse(StoreErrorDetail(TRUE))]
           ELSE \E result \in pageQuery(d.date, reqs[r].q.pageSize, reqs[r].q.offset) :
                    reqs' = [reqs EXCEPT
                                ![r].pc = "done",
                                ![r].raw = result,
                                ![r].resp = PageResponse(reqs[r].in.handler, result,
                                                         Pagination(r))]
    /\ UNCHANGED <<clock, redisUp, buckets, issued, windows, dwh, proc, users>>

\* The response has gone out and the request is over
Close(r) ==
    /\ reqs[r].pc = "done"
    /\ reqs' = [reqs EXCEPT ![r] = Idle]
    /\ UNCHANGED <<clock, redisUp, buckets, issued, windows, dwh, proc, users>>

\* The counter store drops the keys whose time to live has run out
Expire(now) ==
    /\ buckets' = [b \in {x \in DOMAIN buckets : ~(now > buckets[x].expireAt)}
                      |-> buckets[b]]
    /\ windows' = [b \in {x \in DOMAIN windows :
                              now <= windows[x].start
                                     + LimiterOf(x[1]).duration * TicksPerSecond}
                      |-> windows[b]]

\* Time passes: tick by tick within FineTicks of a whole hour ...
Tick ==
    /\ clock < MaxClock
    /\ \/ (clock + 1) % HourTicks <= FineTicks
       \/ (clock + 1) % HourTicks >= HourTicks - FineTicks
    /\ clock' = clock + 1
    /\ Expire(clock + 1)
    /\ UNCHANGED <<redisUp, reqs, issued, dwh, proc, users>>

\* ... and in one step over the rest of the hour
Elapse ==
    /\ clock % HourTicks = FineTicks
    /\ clock + HourTicks - 2 * FineTicks <= MaxClock
    /\ clock' = clock + HourTicks - 2 * FineTicks
    /\ Expire(clock + HourTicks - 2 * FineTicks)
    /\ UNCHANGED <<redisUp, reqs, issued, dwh, proc, users>>

\* A request that has been accepted and not answered yet
InFlight(r) == reqs[r].pc \notin {"idle", "done", "aborted"}

\* process.on('SIGTERM'): closeRedisConnection() calls redis.quit() at once.
\* The consumes already sent are answered before the QUIT; every later one
\* finds the connection closing.
Sigterm ==
    /\ proc.phase = "running"
    /\ proc' = [ phase    |-> "quitting",
                 pending  |-> {r \in Slots : reqs[r].pc = "consume"},
                 inflight |-> {r \in Slots : InFlight(r)} ]
    /\ UNCHANGED <<clock, redisUp, buckets, reqs, issued, windows, dwh, users>>

\* The rest of the SIGTERM handler, once redis.quit() has settled:
\* dbConnection.close(); db.close(); process.exit().  Whatever is still in
\* flight ends without an answer.
Exit ==
    /\ proc.phase = "quitting"
    /\ \A r \in proc.pending : reqs[r].pc # "consume"
    /\ proc' = [proc EXCEPT !.phase = "exited"]
    /\ reqs' = [r \in Slots |->
                    IF InFlight(r) THEN [reqs[r] EXCEPT !.pc = "aborted"] ELSE reqs[r]]
    /\ UNCHANGED <<clock, redisUp, buckets, issued, windows, dwh, users>>

\* The answer of a store to the request's consume or query never comes: the
\* middleware stays in `await limiter.consume(key)`, the handler waits for its
\* callback, and no timer of the code ends the wait
Stall(r) ==
    /\ reqs[r].pc \in {"consume", "count", "page"}
    /\ reqs' = [reqs EXCEPT ![r].pc = "stalled"]
    /\ UNCHANGED <<clock, redisUp, buckets, issued, windows, dwh, proc, users>>

\* The counter store becomes unreachable, or reachable again
RedisFlip ==
    /\ redisUp' = ~redisUp
    /\ UNCHANGED <<clock, buckets, reqs, issued, windows, dwh, proc, users>>

----------------------------------------------------------------------------
(* What clients send *)

IPs == {"10.0.0.1", "10.0.0.2"}

Usernames == {"admin", "Admin", "nobody", Undefined}

Passwords == {"password123", "wrong", Undefined}

\* Tokens nobody was issued: signed with another secret, or not a JWT at all
ForgedTokens ==
    { [username |-> "admin", iat |-> 0, exp |-> 3 * ExpiresInSeconds, sig |-> "forged"],
      [username |-> "", iat |-> 0, exp |-> 0, sig |-> "malformed"] }

AuthHeaders(toks) ==
    { [shape |-> "none", tok |-> NoToken],
      [shape |-> "schemeOnly", tok |-> NoToken],
      [shape |-> "emptyToken", tok |-> NoToken] }
    \cup { [shape |-> sh, tok |-> t] : sh \in {"bare", "bearer"}, t \in toks }

LoginInputs(ips, names, pws) ==
    { Input("login", "index", ip, u, p, NoAuth, <<>>, <<>>, <<>>) :
        ip \in ips, u \in names, p \in pws }

SalesInputs(ips, handlers, auths, dates, pages, sizes) ==
    { Input("sales", h[1], h[2], Undefined, Undefined, a, d[1], d[2], d[3]) :
        h \in handlers \X ips, a \in auths, d \in dates \X pages \X sizes }

HealthInputs(ips, auths) ==
    { Input("health", "index", ip, Undefined, Undefined, a, <<>>, <<>>, <<>>) :
        ip \in ips, a \in auths }

\* Arrivals take the lowest free slot
Free(r) == reqs[r].pc = "idle" /\ \A s \in Slots : s < r => reqs[s].pc # "idle"

IssuedTokens == {i.tok : i \in issued}

Bearer(toks) == {[shape |-> "bearer", tok |-> t] : t \in toks}

\* One request at a time
Quiet == \A s \in Slots : reqs[s].pc = "idle"

(* Spec: logins and data requests of one caller, in flight together, over   *)
(* the first seconds                                                        *)
Next ==
    \/ \E r \in Slots :
        /\ Free(r)
        /\ \E in \in LoginInputs({"10.0.0.1"}, {"admin"}, {"password123", "wrong"}) :
                ArriveLogin(r, in)
    \/ \E r \in Slots :
        /\ Free(r)
        /\ \E in \in SalesInputs({"10.0.0.1"}, {"index"}, Bearer(IssuedTokens),
                              {<<>>}, {<<>>}, {<<>>}) :
                ArriveSales(r, in)
    \/ \E r \in Slots : StoreConsume(r)
    \/ \E r \in Slots : LimiterResume(r)
    \/ \E r \in Slots : BcryptDone(r)
    \/ \E r \in Slots : CountDone(r, FALSE)
    \/ \E r \in Slots : PageDone(r, FALSE)
    \/ \E r \in Slots : Close(r)
    \/ Tick

Spec == Init /\ [][Next]_vars

(* SpecSeq: one request at a time, with every kind of credentials and of    *)
(* Authorization header, over more than an hour                             *)
NextSeq ==
    \/ /\ Quiet
       /\ \E in \in LoginInputs({"10.0.0.1"}, Usernames, Passwords) :
               ArriveLogin(1, in)
    \/ /\ Quiet
       /\ \E in \in SalesInputs({"10.0.0.1"}, {"index"},
                             AuthHeaders(IssuedTokens \cup ForgedTokens),
                             {<<>>}, {<<>>}, {<<>>}) :
               ArriveSales(1, in)
    \/ StoreConsume(1)
    \/ LimiterResume(1)
    \/ BcryptDone(1)
    \/ \E fails \in BOOLEAN : CountDone(1, fails)
    \/ \E fails \in BOOLEAN : PageDone(1, fails)
    \/ Close(1)
    \/ Tick
    \/ Elapse

SpecSeq == Init /\ [][NextSeq]_vars

(* SpecOutage: one request at a time, health checks among them, the        *)
(* counter store going down and coming back, the analytical store failing  *)
(* or not                                                                   *)
NextOutage ==
    \/ /\ Quiet
       /\ \E in \in LoginInputs({"10.0.0.1"}, {"admin"}, {"password123"}) :
               ArriveLogin(1, in)
    \/ /\ Quiet
       /\ \E in \in SalesInputs({"10.0.0.1"}, {"index"}, Bearer(IssuedTokens),
                             {<<>>}, {<<>>}, {<<>>}) :
               ArriveSales(1, in)
    \/ /\ Quiet
       /\ \E in \in HealthInputs({"10.0.0.1"}, {NoAuth} \cup Bearer(IssuedTokens)) :
               ArriveHealth(1, in)
    \/ StoreConsume(1)
    \/ LimiterResume(1)
    \/ BcryptDone(1)
    \/ \E fails \in BOOLEAN : CountDone(1, fails)
    \/ \E fails \in BOOLEAN : PageDone(1, fails)
    \/ Close(1)
    \/ Tick
    \/ RedisFlip

SpecOutage == Init /\ [][NextOutage]_vars

(* SpecKeys: one request at a time from two callers, with every kind of     *)
(* Authorization header, within one window                                  *)
NextKeys ==
    \/ /\ Quiet
       /\ \E in \in LoginInputs(IPs, {"admin", "nobody"}, {"password123"}) :
               ArriveLogin(1, in)
    \/ /\ Quiet
       /\ \E in \in SalesInputs(IPs, {"index"},
                             AuthHeaders(IssuedTokens \cup ForgedTokens),
                             {<<>>}, {<<>>}, {<<>>}) :
               ArriveSales(1, in)
    \/ StoreConsume(1)
    \/ LimiterResume(1)
    \/ BcryptDone(1)
    \/ CountDone(1, FALSE)
    \/ PageDone(1, FALSE)
    \/ Close(1)

SpecKeys == Init /\ [][NextKeys]_vars

\* Values of the startDate, page and pageSize parameters
SampleDates ==
    { <<>>,
      <<"2", "0", "2", "4", "-", "0", "3", "-", "1", "4">>,
      <<"2", "0", "2", "4", "-", "1", "3", "-", "4", "0">>,
      <<"9", "9", "-", "1", "-", "1">>,
      <<"2", "0", "2", "4", "-", "1", "-", "0", "1">>,
      <<"2", "0", "2", "4", "0", "3", "1", "4">>,
      <<"x", "2", "0", "2", "4", "-", "0", "1", "-", "0", "1">>,
      <<"2", "0", "2", "4", "-", "0", "1", "-", "0", "1", "1">> }

SamplePages ==
    { <<>>, <<"0">>, <<"-", "3">>, <<"2">>, <<"a", "b", "c">>, <<"2", "x">> }

SamplePageSizes ==
    { <<>>, <<"0">>, <<"-", "5">>, <<"1">>, <<"2">>, <<"1", "0", "0", "0">>,
      <<"1", "0", "0", "1">>, <<"a", "b", "c">> }

(* SpecQuery: one request at a time, data requests of both sales handlers   *)
(* with every sample of the query parameters, the analytical store failing  *)
(* or not                                                                   *)
NextQuery ==
    \/ /\ Quiet
       /\ \E in \in LoginInputs({"10.0.0.1"}, {"admin"}, {"password123"}) :
               ArriveLogin(1, in)
    \/ /\ Quiet
       /\ \E in \in SalesInputs({"10.0.0.1"}, SalesHandlers, Bearer(IssuedTokens),
                             SampleDates, SamplePages, SamplePageSizes) :
               ArriveSales(1, in)
    \/ StoreConsume(1)
    \/ LimiterResume(1)
    \/ BcryptDone(1)
    \/ \E fails \in BOOLEAN : CountDone(1, fails)
    \/ \E fails \in BOOLEAN : PageDone(1, fails)
    \/ Close(1)

SpecQuery == InitStore /\ [][NextQuery]_vars

\* Pages of one filter
StoreDates == { <<>>, <<"2", "0", "2", "4", "-", "0", "1", "-", "0", "1">> }

StorePages == { <<>>, <<"2">>, <<"3">> }

StorePageSizes == { <<"1">>, <<"2">> }

(* SpecStore: data requests in flight together, each for a page of the same *)
(* kind of filter, over every sample content of the analytical store        *)
NextStore ==
    \/ \E r \in Slots :
        /\ Free(r)
        /\ issued = {}
        /\ \E in \in LoginInputs({"10.0.0.1"}, {"admin"}, {"password123"}) :
                ArriveLogin(r, in)
    \/ \E r \in Slots :
        /\ Free(r)
        /\ \E in \in SalesInputs({"10.0.0.1"}, {"index"}, Bearer(IssuedTokens),
                              StoreDates, StorePages, StorePageSizes) :
                ArriveSales(r, in)
    \/ \E r \in Slots : StoreConsume(r)
    \/ \E r \in Slots : LimiterResume(r)
    \/ \E r \in Slots : BcryptDone(r)
    \/ \E r \in Slots : CountDone(r, FALSE)
    \/ \E r \in Slots : PageDone(r, FALSE)
    \/ \E r \in Slots : Close(r)

SpecStore == InitStore /\ [][NextStore]_vars

\* No bucket has reached the number of consumptions the model follows
NoBucketFull ==
    \A b \in DOMAIN buckets :
        buckets[b].consumed < LimiterOf(b[1]).points + MaxOver

(* SpecHang: one request at a time, the stores answering or never          *)
(* answering.  Every step of a request that is ready to run does run: the   *)
(* event loop runs the callbacks that are due, and a store that answers     *)
(* does so in the end.                                                      *)
NextHang ==
    \/ /\ Quiet
       /\ NoBucketFull
       /\ \E in \in LoginInputs({"10.0.0.1"}, {"admin"}, {"password123", "wrong"}) :
               ArriveLogin(1, in)
    \/ /\ Quiet
       /\ NoBucketFull
       /\ \E in \in SalesInputs({"10.0.0.1"}, {"index"}, Bearer(IssuedTokens),
                             {<<>>}, {<<>>, <<"2">>}, {<<>>, <<"2">>}) :
               ArriveSales(1, in)
    \/ StoreConsume(1)
    \/ LimiterResume(1)
    \/ BcryptDone(1)
    \/ \E fails \in BOOLEAN : CountDone(1, fails)
    \/ \E fails \in BOOLEAN : PageDone(1, fails)
    \/ Close(1)
    \/ Stall(1)

SpecHang ==
    /\ Init
    /\ [][NextHang]_vars
    /\ WF_vars(StoreConsume(1))
    /\ WF_vars(LimiterResume(1))
    /\ WF_vars(BcryptDone(1))
    /\ WF_vars(\E fails \in BOOLEAN : CountDone(1, fails))
    /\ WF_vars(\E fails \in BOOLEAN : PageDone(1, fails))

(* SpecShutdown: logins and data requests in flight together, and a SIGTERM *)
NextShutdown ==
    \/ \E r \in Slots :
        /\ proc.phase # "exited"
        /\ Free(r)
        /\ \E in \in LoginInputs({"10.0.0.1"}, {"admin"}, {"password123", "wrong"}) :
                AcceptLogin(r, in)
    \/ \E r \in Slots :
        /\ proc.phase # "exited"
        /\ Free(r)
        /\ \E in \in SalesInputs({"10.0.0.1"}, {"index"}, Bearer(IssuedTokens),
                              {<<>>}, {<<>>, <<"2">>}, {<<>>, <<"2">>}) :
                ArriveSales(r, in)
    \/ \E r \in Slots : BodyParsed(r)
    \/ \E r \in Slots : StoreConsume(r)
    \/ \E r \in Slots : LimiterResume(r)
    \/ \E r \in Slots : BcryptDone(r)
    \/ \E r \in Slots : CountDone(r, FALSE)
    \/ \E r \in Slots : PageDone(r, FALSE)
    \/ \E r \in Slots : Close(r)
    \/ Sigterm
    \/ Exit

SpecShutdown == Init /\ [][NextShutdown]_vars

----------------------------------------------------------------------------
(* The claims *)

\* The points the configuration allots to a limiter class
ConfiguredPoints(prefix) ==
    IF prefix = "login_limit" THEN config.loginAttempt ELSE config.saleAttempt

Consumed(r) == reqs[r].lim.kind \in {"ok", "reject"}

SameWindow(r1, r2) ==
    /\ Consumed(r1) /\ Consumed(r2)
    /\ Bucket(r1) = Bucket(r2)
    /\ reqs[r1].win = reqs[r2].win

\* C1: under every interleaving of requests consuming from one key, the
\* requests admitted within one window never number more than `points`: the
\* count of admissions of the running window stays within the points, every
\* admitted request holds one of the first `points` consumptions of its
\* window, and no two requests of a window were granted the same point.
C1_AdmittedWithinPoints ==
    /\ \A b \in DOMAIN windows : windows[b].admitted <= ConfiguredPoints(b[1])
    /\ \A r \in Slots :
        reqs[r].admitted =>
            /\ reqs[r].nth >= 1
            /\ reqs[r].nth <= ConfiguredPoints(reqs[r].limiter)
    /\ \A r1, r2 \in Slots :
        (r1 # r2 /\ SameWindow(r1, r2) /\ reqs[r1].admitted /\ reqs[r2].admitted)
            => /\ reqs[r1].nth # reqs[r2].nth
               /\ reqs[r1].lim.consumedPoints # reqs[r2].lim.consumedPoints

\* Two requests raced for the last point of a window: one holds it and was
\* admitted, the other's consume was rejected
C1_Witness ==
    \E r1, r2 \in Slots :
        /\ r1 # r2
        /\ SameWindow(r1, r2)
        /\ reqs[r1].admitted
        /\ reqs[r1].lim.consumedPoints = ConfiguredPoints(reqs[r1].limiter)
        /\ reqs[r2].lim.kind = "reject"
        /\ windows[Bucket(r1)].admitted = ConfiguredPoints(reqs[r1].limiter)

\* C2: with points = P, the first P consumptions of a key within a window
\* are admitted and every further one within that window is answered 429
\* Too Many Requests; the store's count is the number of the consumption
\* within its window, so a consumption after the window has elapsed is the
\* first of a new window and is admitted again.
C2_FirstPointsAdmittedRestRejected ==
    \A r \in Slots :
        Consumed(r) =>
            /\ reqs[r].lim.consumedPoints = reqs[r].nth
            /\ reqs[r].pc # "limited" =>
                IF reqs[r].nth <= ConfiguredPoints(reqs[r].limiter)
                THEN reqs[r].admitted /\ reqs[r].resp.status # 429
                ELSE /\ ~reqs[r].admitted
                     /\ reqs[r].pc = "done"
                     /\ reqs[r].resp.status = 429
                     /\ reqs[r].resp.error = "Too Many Requests"

\* A consumption beyond the points was answered 429, and after its window
\* elapsed another consumption of the same key has been admitted
C2_Witness ==
    \E r1, r2 \in Slots :
        /\ Consumed(r1) /\ Consumed(r2)
        /\ Bucket(r1) = Bucket(r2)
        /\ reqs[r1].nth = ConfiguredPoints(reqs[r1].limiter) + 1
        /\ reqs[r1].resp.status = 429
        /\ reqs[r2].win > reqs[r1].win
        /\ reqs[r2].admitted

\* C3: a consume that fails because the counter store is unreachable is
\* answered 500 Internal Server Error, which is not the 429 answer, and the
\* request is not passed on: no handler runs, and every admitted request
\* holds a consume the store granted.
C3_FailClosed ==
    \A r \in Slots :
        /\ (reqs[r].lim.kind = "error" /\ reqs[r].pc # "limited") =>
            /\ reqs[r].pc = "done"
            /\ reqs[r].resp = ErrorResp(500, "Internal Server Error")
            /\ reqs[r].resp.status # 429
            /\ ~reqs[r].admitted
            /\ reqs[r].found = <<>>
            /\ reqs[r].nCount = 0 /\ reqs[r].nPage = 0
        /\ reqs[r].admitted => reqs[r].lim.kind = "ok"

\* A data request whose consume hit the unreachable store was answered 500
C3_Witness ==
    \E r \in Slots :
        /\ reqs[r].in.route = "sales"
        /\ reqs[r].lim.kind = "error"
        /\ reqs[r].pc = "done"
        /\ reqs[r].resp.status = 500
        /\ ~redisUp

\* C8: the login path consumes from the authentication class under the
\* caller's IP alone, the data path from the data class under ip_identity,
\* the identity being the username of the verified token; no bucket of the
\* authentication class carries an identity and none of the data class lacks it.
C8_KeysPerRoute ==
    /\ \A r \in Slots :
        reqs[r].limiter # "" =>
            IF reqs[r].in.route = "login"
            THEN /\ reqs[r].limiter = "login_limit"
                 /\ reqs[r].key = <<reqs[r].in.ip>>
            ELSE /\ reqs[r].limiter = "sales_limit"
                 /\ reqs[r].in.auth.tok \in IssuedTokens
                 /\ reqs[r].key = <<reqs[r].in.ip, "_", reqs[r].in.auth.tok.username>>
    /\ \A b \in DOMAIN buckets :
        IF b[1] = "login_limit"
        THEN b[2] \in {<<ip>> : ip \in IPs}
        ELSE /\ b[1] = "sales_limit"
             /\ b[2] \in {<<ip, "_", i.login>> : ip \in IPs, i \in issued}

\* Both classes hold a bucket for the second caller
C8_Witness ==
    /\ <<"login_limit", <<"10.0.0.2">>>> \in DOMAIN buckets
    /\ <<"sales_limit", <<"10.0.0.2", "_", "admin">>>> \in DOMAIN buckets

\* A data request arrives in slot r: authenticateToken runs in this step
SalesArrives(r) ==
    /\ reqs[r].pc = "idle"
    /\ reqs'[r].pc # "idle"
    /\ reqs'[r].in.route = "sales"

Accepted(req) ==
    /\ req.pc = "consume"
    /\ req.user = <<req.in.auth.tok>>

Refused(req, status, error) ==
    /\ req.pc = "done"
    /\ req.resp = ErrorResp(status, error)
    /\ req.user = <<>>
    /\ req.limiter = ""
    /\ ~req.admitted
    /\ req.nCount = 0 /\ req.nPage = 0

Presents(req, tok) == req.in.auth = [shape |-> "bearer", tok |-> tok]

\* C4 as claimed: a token issued at t0 is accepted at every t0 <= t < t0 + 1
\* hour and rejected with 403 at every t >= t0 + 1 hour.
C4_AcceptedForExactlyOneHour ==
    [][\A r \in Slots : \A i \in issued :
          (SalesArrives(r) /\ Presents(reqs'[r], i.tok)) =>
              IF clock < i.at + HourTicks
              THEN Accepted(reqs'[r])
              ELSE Refused(reqs'[r], 403, "Invalid or expired token")]_vars

\* C4, amended: iat and the clock of the verification are whole seconds. A
\* token issued at t0 is accepted at every time whose whole second lies
\* below that of t0 plus 3600, and rejected with 403 from that second on.
C4_AcceptedUntilExpirySecond ==
    [][\A r \in Slots : \A i \in issued :
          (SalesArrives(r) /\ Presents(reqs'[r], i.tok)) =>
              /\ i.at <= clock
              /\ IF NowSeconds(clock) < NowSeconds(i.at) + ExpiresInSeconds
                 THEN Accepted(reqs'[r])
                 ELSE Refused(reqs'[r], 403, "Invalid or expired token")]_vars

\* An issued token was presented less than an hour after its issuance, in
\* the second of its expiry, and was rejected
C4_Witness ==
    \E r \in Slots : \E i \in issued :
        /\ Presents(reqs[r], i.tok)
        /\ reqs[r].pc = "done"
        /\ reqs[r].resp.status = 403
        /\ clock < i.at + HourTicks

\* The Authorization header holds no token: there is none, or it has no
\* second field, or the field is empty
CarriesNoToken(auth) == auth.shape \in {"none", "schemeOnly", "emptyToken", "bare"}

BadToken(tok, now) ==
    \/ tok.sig = "malformed"
    \/ tok.sig # config.jwtSecret
    \/ NowSeconds(now) >= tok.exp

\* C5: on the data route a request without a token is answered 401 and one
\* whose token is malformed, badly signed or expired is answered 403, never
\* the other way round; in both cases no identity is attached, the limiter is
\* not consulted and no query is issued.
C5_MissingVsInvalidToken ==
    /\ [][\A r \in Slots :
            SalesArrives(r) =>
                IF CarriesNoToken(reqs'[r].in.auth)
                THEN Refused(reqs'[r], 401, "Authentication token required")
                ELSE IF BadToken(reqs'[r].in.auth.tok, clock)
                     THEN Refused(reqs'[r], 403, "Invalid or expired token")
                     ELSE Accepted(reqs'[r])]_vars
    /\ [](\A r \in Slots :
            (reqs[r].in.route = "sales" /\ reqs[r].resp.status \in {401, 403}) =>
                /\ reqs[r].user = <<>>
                /\ ~reqs[r].admitted
                /\ reqs[r].nCount = 0 /\ reqs[r].nPage = 0
                /\ (reqs[r].resp.status = 401 <=> CarriesNoToken(reqs[r].in.auth)))

\* An issued token that has expired was answered 403
C5_Witness ==
    \E r \in Slots :
        /\ reqs[r].in.route = "sales"
        /\ reqs[r].in.auth.shape = "bearer"
        /\ reqs[r].in.auth.tok \in IssuedTokens
        /\ reqs[r].resp = ErrorResp(403, "Invalid or expired token")

\* The credentials name a record of the table and the password matches its hash
ValidCredentials(in) ==
    \E k \in 1..Len(users) :
        /\ users[k].username = in.username
        /\ in.password # Undefined
        /\ Hash(in.password) = users[k].password

\* C6 as claimed: every admitted login whose username is unknown or whose
\* password does not match, an absent password included, gets the same 401
\* Invalid password or user.
C6_SameInvalidCredentialsResponse ==
    \A r \in Slots :
        (/\ reqs[r].in.route = "login"
         /\ reqs[r].admitted
         /\ reqs[r].pc = "done"
         /\ ~ValidCredentials(reqs[r].in))
            => reqs[r].resp = ErrorResp(401, "Invalid password or user")

\* C7: a token comes only in the 200 response of an admitted login whose
\* username is exactly that of a credential record and whose password matches
\* its hash, and carries that username; the identity a data request gets
\* attached is that of an issued token, so the username of its login.
C7_TokenOnlyFromSuccessfulLogin ==
    /\ \A r \in Slots :
        reqs[r].resp.token # <<>> <=>
            /\ reqs[r].in.route = "login"
            /\ reqs[r].pc = "done"
            /\ reqs[r].admitted
            /\ ValidCredentials(reqs[r].in)
    /\ \A r \in Slots :
        reqs[r].resp.token # <<>> =>
            /\ reqs[r].resp.status = 200
            /\ reqs[r].resp.token[1].username = reqs[r].in.username
            /\ reqs[r].resp.token[1].sig = config.jwtSecret
    /\ \A i \in issued :
        /\ i.tok.username = i.login
        /\ \E k \in 1..Len(users) : users[k].username = i.login
    /\ \A r \in Slots :
        reqs[r].user # <<>> =>
            /\ reqs[r].in.route = "sales"
            /\ \E i \in issued : i.tok = reqs[r].user[1]
                                 /\ reqs[r].user[1].username = i.login

\* A data request that carries the identity of a login's token was served
C7_Witness ==
    \E r \in Slots :
        /\ reqs[r].in.route = "sales"
        /\ reqs[r].user # <<>>
        /\ reqs[r].user[1].username = "admin"
        /\ reqs[r].resp.status = 200

\* The handler of a data request has run: it parsed the query parameters
HandlerRan(r) == reqs[r].in.route = "sales" /\ reqs[r].admitted

\* C9 as claimed: in every sales handler a startDate that is not, as a whole,
\* four digits, '-', two digits, '-', two digits is answered 400, and neither
\* the count query nor the page query is issued for it.
C9_BadStartDateRejectedBeforeStore ==
    \A r \in Slots :
        (/\ HandlerRan(r)
         /\ reqs[r].in.startDate # <<>>
         /\ ~StrictDate(reqs[r].in.startDate))
            => /\ reqs[r].pc = "done"
               /\ reqs[r].resp = ErrorResp(400, "Invalid date format. Please use YYYY-MM-DD")
               /\ reqs[r].nCount = 0
               /\ reqs[r].nPage = 0

\* A parameter that is a whole number in decimal, and its value
IsInteger(raw) ==
    LET body == IF raw # <<>> /\ raw[1] = "-" THEN Tail(raw) ELSE raw
    IN  body # <<>> /\ \A k \in 1..Len(body) : body[k] \in Digits

IntegerOf(raw) ==
    IF raw[1] = "-" THEN 0 - DigitsValue(Tail(raw)) ELSE DigitsValue(raw)

Clamp(lo, hi, v) == IF v < lo THEN lo ELSE IF v > hi THEN hi ELSE v

\* C10 as claimed: whatever the raw page and pageSize, the values used satisfy
\* currentPage >= 1 and 0 < pageSize <= 1000; an absent page is 1, an absent
\* pageSize 100, a page below 1 becomes 1 and a pageSize outside [1,1000] the
\* nearest bound; the pagination block reports the values used.
C10_PageAndPageSizeClamped ==
    \A r \in Slots :
        HandlerRan(r) =>
            /\ reqs[r].q.page >= 1
            /\ reqs[r].q.pageSize > 0 /\ reqs[r].q.pageSize <= MaxPageSize
            /\ reqs[r].in.page = <<>> => reqs[r].q.page = DefaultPage
            /\ reqs[r].in.pageSize = <<>> => reqs[r].q.pageSize = DefaultPageSize
            /\ IsInteger(reqs[r].in.page) =>
                   reqs[r].q.page = Max(1, IntegerOf(reqs[r].in.page))
            /\ IsInteger(reqs[r].in.pageSize) =>
                   reqs[r].q.pageSize = Clamp(1, MaxPageSize, IntegerOf(reqs[r].in.pageSize))
            /\ reqs[r].resp.pagination # <<>> =>
                   /\ reqs[r].resp.pagination[1].currentPage = reqs[r].q.page
                   /\ reqs[r].resp.pagination[1].pageSize = reqs[r].q.pageSize

\* n is the least whole number of pages of b rows that hold a rows
IsCeil(n, a, b) == n >= 0 /\ n * b >= a /\ (n - 1) * b < a

\* C11: for page >= 1 and 1 <= pageSize <= 1000, whatever the number of
\* records, the offset given to the page query is (page-1)*pageSize and the
\* totalPages reported is ceil(totalRecords/pageSize), which is 0 for no record.
C11_OffsetAndTotalPages ==
    \A r \in Slots :
        (/\ HandlerRan(r)
         /\ reqs[r].q.page >= 1
         /\ reqs[r].q.pageSize >= 1 /\ reqs[r].q.pageSize <= MaxPageSize)
            => /\ reqs[r].q.offset = (reqs[r].q.page - 1) * reqs[r].q.pageSize
               /\ reqs[r].resp.pagination # <<>> =>
                    /\ reqs[r].total >= 0
                    /\ reqs[r].resp.pagination[1].totalRecords = reqs[r].total
                    /\ IsCeil(reqs[r].resp.pagination[1].totalPages,
                              reqs[r].total, reqs[r].q.pageSize)
                    /\ reqs[r].total = 0 => reqs[r].resp.pagination[1].totalPages = 0

\* The second page of two rows, of three records: two pages, offset 2
C11_Witness ==
    \E r \in Slots :
        /\ HandlerRan(r)
        /\ reqs[r].resp.status = 200
        /\ reqs[r].q.page = 2 /\ reqs[r].q.pageSize = 2 /\ reqs[r].q.offset = 2
        /\ reqs[r].resp.pagination[1].totalRecords = 3
        /\ reqs[r].resp.pagination[1].totalPages = 2

\* A data request answered 200
Served(r) ==
    /\ HandlerRan(r)
    /\ reqs[r].pc = "done"
    /\ reqs[r].resp.status = 200

\* The filter of the request, as a date
FilterDate(r) == DateCast(reqs[r].q.startDate).date

\* C12 as claimed: the totalRecords reported equals the number of rows of the
\* filtered, joined result set the page is fetched from (the rows the page
\* query gives without LIMIT/OFFSET), whatever the store holds, fact rows
\* without a client, employee or region row included.
C12_TotalRecordsIsRowCount ==
    \A r \in Slots :
        Served(r) =>
            reqs[r].resp.pagination[1].totalRecords
                = Cardinality(PageJoin(FilterDate(r)))

\* The date of a raw row, read back from its sale_date
RowDate(row) == DateCast(row.sale_date).date

\* The rows of the filtered, joined result set
FilteredRows(r) == {RawRow(j) : j \in PageJoin(FilterDate(r))}

\* C13: the data of a page has at most pageSize rows, every row has
\* date >= startDate, the rows are in ascending date order, and they are the
\* rows at positions (p-1)*pageSize .. p*pageSize-1 of the filtered result set
\* in date order: as many rows as that range holds, each of the result set and
\* none twice, with at most (p-1)*pageSize rows of the set dated before the
\* first of them and at least the rows up to the last position dated no later
\* than the last.
C13_PageIsSliceOfDateOrder ==
    \A r \in Slots :
        Served(r) =>
            LET rows  == reqs[r].raw
                n     == Cardinality(FilteredRows(r))
                first == (reqs[r].q.page - 1) * reqs[r].q.pageSize
            IN  /\ Len(reqs[r].resp.data) = Len(rows)
                /\ Len(rows) <= reqs[r].q.pageSize
                /\ Len(rows) = Max(0, Min(reqs[r].q.pageSize, n - first))
                /\ \A i \in 1..Len(rows) :
                       /\ rows[i] \in FilteredRows(r)
                       /\ RowDate(rows[i]) >= FilterDate(r)
                       /\ reqs[r].resp.data[i].date.id = rows[i].sale_date
                /\ \A i, k \in 1..Len(rows) :
                       i < k => /\ RowDate(rows[i]) <= RowDate(rows[k])
                                /\ rows[i] # rows[k]
                /\ Len(rows) > 0 =>
                       /\ Cardinality({x \in FilteredRows(r) :
                                          RowDate(x) < RowDate(rows[1])}) <= first
                       /\ Cardinality({x \in FilteredRows(r) :
                                          RowDate(x) <= RowDate(rows[Len(rows)])})
                              >= first + Len(rows)

\* The second page of one row, of three records filtered from 2024-01-01
C13_Witness ==
    \E r \in Slots :
        /\ Served(r)
        /\ reqs[r].in.startDate = <<"2", "0", "2", "4", "-", "0", "1", "-", "0", "1">>
        /\ reqs[r].q.page = 2 /\ reqs[r].q.pageSize = 1
        /\ Cardinality(FilteredRows(r)) = 3
        /\ Len(reqs[r].resp.data) = 1

\* Two data requests with the same filter and page size
SameFilter(r1, r2) ==
    /\ Served(r1) /\ Served(r2)
    /\ reqs[r1].q.startDate = reqs[r2].q.startDate
    /\ reqs[r1].q.pageSize = reqs[r2].q.pageSize

\* The rows of a response, as a set
DataSet(r) == {reqs[r].resp.data[i] : i \in 1..Len(reqs[r].resp.data)}

\* C14 as claimed: with the store unchanged and a fixed (startDate, pageSize),
\* two calls for the same page return the same rows and two calls for
\* different pages return disjoint rows, also when records share a date.
C14_PaginationDeterministic ==
    \A r1, r2 \in Slots :
        (r1 # r2 /\ SameFilter(r1, r2)) =>
            IF reqs[r1].q.page = reqs[r2].q.page
            THEN reqs[r1].resp.data = reqs[r2].resp.data
            ELSE DataSet(r1) \cap DataSet(r2) = {}

\* The page query of a request has run and returned no row
EmptyResult(r) ==
    /\ HandlerRan(r)
    /\ reqs[r].pc = "done"
    /\ reqs[r].nPage = 1
    /\ reqs[r].dbErr = ""
    /\ Len(reqs[r].raw) = 0

\* C15: when the page query returns no rows the answer is 200 with data = []
\* and a pagination block carrying currentPage, pageSize, totalRecords and
\* totalPages as a non-empty page would: the page and page size used, the
\* count of the count query and its ceiling; never an error response.
C15_EmptyPageIsNotAnError ==
    \A r \in Slots :
        EmptyResult(r) =>
            /\ reqs[r].resp.status = 200
            /\ reqs[r].resp.error = ""
            /\ reqs[r].resp.data = <<>>
            /\ Len(reqs[r].resp.pagination) = 1
            /\ reqs[r].resp.pagination[1] =
                   [ currentPage  |-> reqs[r].q.page,
                     pageSize     |-> reqs[r].q.pageSize,
                     totalRecords |-> reqs[r].total,
                     totalPages   |-> CeilDiv(reqs[r].total, reqs[r].q.pageSize) ]

\* A page beyond totalPages, from the router of src/routes
C15_Witness ==
    \E r \in Slots :
        /\ EmptyResult(r)
        /\ reqs[r].in.handler = "routes"
        /\ reqs[r].total > 0
        /\ reqs[r].q.page > reqs[r].resp.pagination[1].totalPages

\* The messages of the two store-failure responses
StoreFailureMessages ==
    {"Database error during count execution", "Database error during execution"}

\* A query of the request failed in the analytical store
StoreFailed(r) == HandlerRan(r) /\ reqs[r].dbErr # ""

\* C16: a failure of the analytical store in the count query or in the page
\* query is answered 500 with one of two fixed messages, which carry nothing
\* of the store's error, and with no data and no pagination block; a failed
\* count query ends the request without the page query being issued.
C16_StoreFailureIsGeneric500 ==
    /\ [](\A r \in Slots :
            StoreFailed(r) =>
                /\ reqs[r].pc = "done"
                /\ reqs[r].resp.status = 500
                /\ reqs[r].resp.error \in StoreFailureMessages
                /\ reqs[r].resp.error # reqs[r].dbErr
                /\ reqs[r].resp.data = <<>>
                /\ reqs[r].resp.pagination = <<>>
                /\ reqs[r].resp.token = <<>>)
    /\ [][\A r \in Slots :
            (reqs[r].pc = "count" /\ reqs'[r].dbErr # "")
                => /\ reqs'[r].nPage = 0
                   /\ reqs'[r].pc = "done"
                   /\ reqs'[r].resp.status = 500]_vars
    /\ [][\A r \in Slots :
            (reqs[r].pc = "page" /\ reqs'[r].pc = "done" /\ reqs'[r].resp.status = 200)
                => reqs'[r].dbErr = ""]_vars

\* The count query failed on a startDate that is no date of the calendar
C16_Witness ==
    \E r \in Slots :
        /\ StoreFailed(r)
        /\ reqs[r].dbErr = StoreErrorDetail(FALSE)
        /\ reqs[r].nCount = 1 /\ reqs[r].nPage = 0
        /\ reqs[r].resp.status = 500

\* The raw row that a transformed record comes from
Untransform(t) ==
    [ _client_bk      |-> t.client.id,
      client_name     |-> t.client.name,
      _employee_bk    |-> t.employee.id,
      employee_name   |-> t.employee.name,
      department_name |-> t.employee.department,
      region_name     |-> t.region,
      sale_date       |-> t.date.id,
      formatted_date  |-> t.date.formatted,
      month_year      |-> t.date.monthYear,
      sale_amount     |-> t.saleAmount ]

\* C17: every record of a response is its raw row regrouped: client {id,
\* name}, employee {id, name, department}, date {id, formatted, monthYear},
\* region and saleAmount, each value that of the raw row's column, no other
\* field; and the raw row is recovered from the record.
C17_TransformIsExactAndInvertible ==
    \A r \in Slots :
        Served(r) =>
            \A i \in 1..Len(reqs[r].raw) :
                LET raw == reqs[r].raw[i]
                    t   == reqs[r].resp.data[i]
                IN  /\ DOMAIN t = {"client", "employee", "date", "region", "saleAmount"}
                    /\ DOMAIN t.client = {"id", "name"}
                    /\ DOMAIN t.employee = {"id", "name", "department"}
                    /\ DOMAIN t.date = {"id", "formatted", "monthYear"}
                    /\ t.client.id = raw._client_bk
                    /\ t.client.name = raw.client_name
                    /\ t.employee.id = raw._employee_bk
                    /\ t.employee.name = raw.employee_name
                    /\ t.employee.department = raw.department_name
                    /\ t.date.id = raw.sale_date
                    /\ t.date.formatted = raw.formatted_date
                    /\ t.date.monthYear = raw.month_year
                    /\ t.region = raw.region_name
                    /\ t.saleAmount = raw.sale_amount
                    /\ Untransform(t) = raw

\* A page of three records
C17_Witness ==
    \E r \in Slots :
        /\ Served(r)
        /\ Len(reqs[r].raw) = 3
        /\ Len(reqs[r].resp.data) = 3

\* C18: the rows given to the transformation are, after it, still the rows
\* the store returned; the output has the length and the order of the input;
\* and an output record depends on its own input row only: the same raw row
\* gives the same record at every position of every response.
C18_RowsTransformedIndependently ==
    /\ \A r \in Slots :
        Served(r) =>
            /\ Len(reqs[r].resp.data) = Len(reqs[r].raw)
            /\ \A i \in 1..Len(reqs[r].raw) :
                   /\ reqs[r].raw[i] \in FilteredRows(r)
                   /\ Untransform(reqs[r].resp.data[i]) = reqs[r].raw[i]
    /\ \A r1, r2 \in Slots :
        (Served(r1) /\ Served(r2)) =>
            \A i \in 1..Len(reqs[r1].raw) : \A k \in 1..Len(reqs[r2].raw) :
                reqs[r1].raw[i] = reqs[r2].raw[k]
                    => reqs[r1].resp.data[i] = reqs[r2].resp.data[k]

\* The same row second in one response and first in another
C18_Witness ==
    \E r1, r2 \in Slots :
        /\ r1 # r2
        /\ Served(r1) /\ Served(r2)
        /\ Len(reqs[r1].raw) = 2 /\ Len(reqs[r2].raw) = 1
        /\ reqs[r1].raw[2] = reqs[r2].raw[1]

\* C19: a health check is answered 200 "ok" in every state, whatever it
\* carries and whatever the state of the buckets and of the stores; it passes
\* through no limiter, and the step that answers it leaves the counter store
\* as it was.
C19_HealthcheckAlwaysOk ==
    /\ [](\A r \in Slots :
            reqs[r].in.route = "health" =>
                /\ reqs[r].pc = "done"
                /\ reqs[r].resp = [NoResp EXCEPT !.status = 200, !.body = "ok"]
                /\ reqs[r].limiter = "" /\ reqs[r].nth = 0)
    /\ [][\A r \in Slots :
            (reqs[r].pc = "idle" /\ reqs'[r].in.route = "health")
                => /\ buckets' = buckets
                   /\ windows' = windows
                   /\ reqs'[r].resp.status = 200
                   /\ reqs'[r].resp.body = "ok"]_vars

\* A health check without a token answered while the counter store is down
\* and the caller's login bucket is exhausted
C19_Witness ==
    \E r \in Slots :
        /\ reqs[r].in.route = "health"
        /\ reqs[r].in.auth = NoAuth
        /\ reqs[r].resp.status = 200
        /\ ~redisUp
        /\ \E b \in DOMAIN buckets :
               /\ b[1] = loginLimiter.keyPrefix
               /\ b[2] = <<reqs[r].in.ip>>
               /\ buckets[b].consumed > loginLimiter.points

\* C20 as claimed: when the SIGTERM handler closes the connection to the
\* counter store no request is in flight any more; no accepted request gets
\* its limiter check refused by a connection that shutdown closed, and none
\* is cut off unanswered; and every counter is the number of complete
\* consumes of its bucket.
C20_ConnectionClosedAfterDrain ==
    /\ proc.phase # "running" => proc.inflight = {}
    /\ \A r \in Slots :
        /\ reqs[r].pc # "aborted"
        /\ reqs[r].lim.kind # "error"
    /\ \A b \in DOMAIN buckets :
        /\ b \in DOMAIN windows
        /\ buckets[b].consumed = windows[b].count

\* A data request whose token has been judged: refused, or verified
TokenJudged(r) ==
    /\ reqs[r].in.route = "sales"
    /\ \/ reqs[r].user # <<>>
       \/ reqs[r].resp.status \in {401, 403}

\* C21 as claimed: on a protected route the limiter is consulted before the
\* token is verified: a request whose token has been judged has had its
\* answer from the limiter.
C21_LimiterBeforeTokenVerification ==
    \A r \in Slots : TokenJudged(r) => reqs[r].lim.kind # "none"

\* C21 as amended: the stages of a data request run in the order token
\* verification, limiter, queries, transformation: the limiter is consulted
\* for requests with a verified token only and a refused token ends the
\* request without the limiter; the handler runs after the limiter has
\* admitted, the page query after the count query, the transformation on the
\* page query's rows.
C21_TokenThenLimiterThenQueryThenTransform ==
    \A r \in Slots :
        reqs[r].in.route = "sales" =>
            /\ reqs[r].nConsume >= 1 =>
                   /\ reqs[r].user # <<>>
                   /\ reqs[r].in.auth.shape = "bearer"
                   /\ reqs[r].user[1] = reqs[r].in.auth.tok
                   /\ reqs[r].in.auth.tok.sig = config.jwtSecret
            /\ reqs[r].resp.status \in {401, 403} =>
                   /\ reqs[r].nConsume = 0
                   /\ reqs[r].lim = NoReply
            /\ reqs[r].admitted => reqs[r].lim.kind = "ok"
            /\ reqs[r].nCount >= 1 => reqs[r].admitted
            /\ reqs[r].nPage >= 1 => (reqs[r].nCount = 1 /\ reqs[r].pc \in {"page", "done"})
            /\ Len(reqs[r].resp.data) > 0 =>
                   (reqs[r].nPage = 1 /\ Len(reqs[r].raw) = Len(reqs[r].resp.data))

\* A data request that went through every stage
C21_Witness ==
    \E r \in Slots :
        /\ Served(r)
        /\ reqs[r].user # <<>>
        /\ reqs[r].lim.kind = "ok"
        /\ reqs[r].nCount = 1 /\ reqs[r].nPage = 1
        /\ Len(reqs[r].resp.data) > 0

\* C22: nothing is tried twice: a request causes at most one consume, one
\* count query and one page query, and a consume that is rejected or fails, a
\* password comparison that throws and a query that fails are each answered
\* in the very next step of the request.
C22_NoAutomaticRetry ==
    /\ [](\A r \in Slots :
            /\ reqs[r].nConsume <= 1
            /\ reqs[r].nCount <= 1
            /\ reqs[r].nPage <= 1)
    /\ [][\A r \in Slots :
            (/\ reqs[r].pc = "limited"
             /\ reqs[r].lim.kind \in {"reject", "error"}
             /\ reqs'[r] # reqs[r])
                => /\ reqs'[r].pc = "done"
                   /\ reqs'[r].resp.status = IF reqs[r].lim.kind = "reject" THEN 429 ELSE 500
                   /\ reqs'[r].nConsume = reqs[r].nConsume]_vars
    /\ [][\A r \in Slots :
            (reqs[r].pc \in {"count", "page"} /\ reqs'[r].dbErr # "")
                => /\ reqs'[r].pc = "done"
                   /\ reqs'[r].resp.status = 500
                   /\ reqs'[r].nCount = reqs[r].nCount
                   /\ reqs'[r].nPage = reqs[r].nPage]_vars

\* A rate-limited request, answered after its one consume
C22_Witness ==
    \E r \in Slots :
        /\ reqs[r].pc = "done"
        /\ reqs[r].resp.status = 429
        /\ reqs[r].nConsume = 1

\* C23 as claimed: a 429 response carries as retryAfter the remaining time
\* to live of the bucket rounded up to whole seconds when that is known
\* (not zero), and the configured duration of its limiter when it is not.
C23_RetryAfterTtlOrDuration ==
    \A r \in Slots :
        (reqs[r].pc = "done" /\ reqs[r].resp.status = 429) =>
            reqs[r].resp.retryAfter =
                IF reqs[r].lim.msBeforeNext > 0
                THEN CeilDiv(reqs[r].lim.msBeforeNext, TicksPerSecond)
                ELSE LimiterOf(reqs[r].limiter).duration

\* A data request, past the token check, whose startDate is not a date in
\* the format YYYY-MM-DD
InvalidStartDate(r) ==
    /\ reqs[r].in.route = "sales"
    /\ reqs[r].user # <<>>
    /\ reqs[r].in.startDate # <<>>
    /\ ~StrictDate(reqs[r].in.startDate)

\* C24 as claimed: a data request with an invalid startDate is rejected
\* before any I/O: no consume on the counter store, so no point of any bucket
\* is taken, and no query on the analytical store.
C24_ValidationBeforeAnyIO ==
    \A r \in Slots :
        InvalidStartDate(r) =>
            /\ reqs[r].nConsume = 0
            /\ reqs[r].nth = 0
            /\ reqs[r].nCount = 0
            /\ reqs[r].nPage = 0

\* C25: whether a token is accepted is decided by the token, the secret
\* and the time alone.  Whatever went before (later logins of the same user,
\* failed logins, rate-limit rejections, other requests), a request that
\* presents a token is accepted exactly when the token bears the server's
\* signature and has not expired, and every issued token is accepted as long
\* as it has not expired, also when other tokens of its user are.
C25_VerificationStateless ==
    /\ [][\A r \in Slots :
            (SalesArrives(r) /\ reqs'[r].in.auth.shape = "bearer") =>
                (Accepted(reqs'[r])
                    <=> /\ reqs'[r].in.auth.tok.sig = config.jwtSecret
                        /\ NowSeconds(clock) < reqs'[r].in.auth.tok.exp)]_vars
    /\ [][\A r \in Slots : \A i \in issued :
            (/\ SalesArrives(r)
             /\ Presents(reqs'[r], i.tok)
             /\ NowSeconds(clock) < i.tok.exp)
                => Accepted(reqs'[r])]_vars

\* The older of two unexpired tokens of one user, presented after the newer
\* one was issued, and accepted
C25_Witness ==
    \E r \in Slots : \E i1, i2 \in issued :
        /\ i1.login = i2.login
        /\ i1.at < i2.at
        /\ i1.tok # i2.tok
        /\ NowSeconds(clock) < i1.tok.exp
        /\ Presents(reqs[r], i1.tok)
        /\ reqs[r].user = <<i1.tok>>
        /\ reqs[r].nConsume = 1

\* C26 as claimed: the limiter check and the queries end at the request's
\* deadline if they have not completed, so that every request that was
\* accepted is answered in the end.
C26_EveryRequestEventuallyAnswered ==
    \A r \in Slots :
        (reqs[r].pc # "idle") ~> (reqs[r].pc \in {"done", "idle"})

\* The request whose consume the counter store runs in this step on bucket b
ConsumesOn(r, b) ==
    /\ reqs[r].pc = "consume"
    /\ reqs'[r].pc = "limited"
    /\ reqs'[r].lim.kind # "error"
    /\ Bucket(r) = b

\* C27: a bucket is a fixed window.  There is none before the first
\* consumption; a consumption on an absent bucket creates it with one point
\* consumed (remaining = points - 1) and a deadline `duration` after that
\* moment; a later consumption adds one point and leaves the deadline where it
\* is; nothing else changes a bucket, so what remains never grows; the bucket
\* is there only up to its deadline and goes only once the deadline has passed.
C27_BucketIsFixedWindow ==
    /\ [](\A b \in DOMAIN buckets :
            /\ clock <= buckets[b].expireAt
            /\ buckets[b].consumed >= 1)
    /\ [][\A b \in (DOMAIN buckets) \cup (DOMAIN buckets') :
            /\ (b \notin DOMAIN buckets) =>
                  /\ \E r \in Slots : ConsumesOn(r, b)
                  /\ LimiterOf(b[1]).points - buckets'[b].consumed
                        = LimiterOf(b[1]).points - 1
                  /\ buckets'[b].expireAt
                        = clock + LimiterOf(b[1]).duration * TicksPerSecond
            /\ (b \in DOMAIN buckets /\ b \in DOMAIN buckets') =>
                  /\ buckets'[b].expireAt = buckets[b].expireAt
                  /\ IF \E r \in Slots : ConsumesOn(r, b)
                     THEN buckets'[b].consumed = buckets[b].consumed + 1
                     ELSE buckets'[b].consumed = buckets[b].consumed
            /\ (b \notin DOMAIN buckets') =>
                  /\ clock' > buckets[b].expireAt
                  /\ \A r \in Slots : ~ConsumesOn(r, b)]_vars

\* A consumption, later in the window than the one that opened it, has found
\* the deadline where the first one put it
C27_Witness ==
    \E r \in Slots :
        /\ reqs[r].pc = "limited"
        /\ reqs[r].lim.kind = "ok"
        /\ reqs[r].lim.consumedPoints >= 2
        /\ Bucket(r) \in DOMAIN buckets
        /\ buckets[Bucket(r)].expireAt
              < clock + LimiterOf(reqs[r].limiter).duration * TicksPerSecond
        /\ buckets[Bucket(r)].expireAt = clock + reqs[r].lim.msBeforeNext

\* The bucket a request is to consume from, by its route, caller and identity
OwnBucket(in) ==
    IF in.route = "login"
    THEN <<"login_limit", <<in.ip>>>>
    ELSE <<"sales_limit", <<in.ip, "_", in.auth.tok.username>>>>

BucketAt(bs, b) == IF b \in DOMAIN bs THEN <<bs[b]>> ELSE <<>>

C29_CredentialTableImmutable ==
    /\ Len(users) = Len(usersFile)
    /\ \A i \in 1..Len(usersFile) :
          /\ users[i].username = usersFile[i].username
          /\ users[i].password = usersFile[i].password

\* A login has failed on the password of an existing account, after another
\* one succeeded
C29_Witness ==
    /\ issued # {}
    /\ \E r \in Slots :
          /\ reqs[r].in.route = "login"
          /\ reqs[r].pc = "done"
          /\ reqs[r].found # <<>>
          /\ reqs[r].resp.status = 401

\* The consume of the request did not resolve: rejected, or failed
LimiterRefused(req) == req.lim.kind \in {"reject", "error"}

\* C30: a request whose consume was rejected (429) or failed (500) never
\* reaches its route handler.  It is answered by the middleware; for a login
\* no user is looked up, no password compared and no token issued; for a data
\* request no count query and no page query is issued.
C30_RefusedNeverReachesHandler ==
    /\ [](\A r \in Slots :
            LimiterRefused(reqs[r]) =>
                /\ reqs[r].pc \in {"limited", "done"}
                /\ ~reqs[r].admitted
                /\ reqs[r].found = <<>>
                /\ reqs[r].q = NoQuery
                /\ reqs[r].nCount = 0
                /\ reqs[r].nPage = 0
                /\ reqs[r].raw = <<>>
                /\ reqs[r].pc = "done" =>
                      /\ reqs[r].resp.status
                            = IF reqs[r].lim.kind = "reject" THEN 429 ELSE 500
                      /\ reqs[r].resp.token = <<>>
                      /\ reqs[r].resp.data = NoResp.data
                      /\ reqs[r].resp.pagination = NoResp.pagination)
    /\ [][\A r \in Slots :
            (LimiterRefused(reqs[r]) /\ reqs'[r] # reqs[r]) =>
                /\ issued' = issued
                /\ dwh' = dwh]_vars

\* A data request with a valid token was rejected by the limiter and answered
\* without a query
C30_Witness ==
    \E r \in Slots :
        /\ reqs[r].in.route = "sales"
        /\ reqs[r].user # <<>>
        /\ reqs[r].lim.kind = "reject"
        /\ reqs[r].pc = "done"
        /\ reqs[r].resp.status = 429
        /\ reqs[r].nConsume = 1
        /\ reqs[r].nCount = 0

\* A login whose consume the counter store has run
LoginCounted(req) ==
    /\ req.in.route = "login"
    /\ req.lim.kind \in {"ok", "reject"}

\* C31: every login consumes one point of the caller's authentication bucket
\* before its credentials are looked at, whatever they are.  The login that is
\* the n-th of its window is rejected with 429 exactly when n is beyond the
\* limiter's points, the earlier logins of the window having succeeded or
\* not and its own credentials being valid or not; no step of the handler, a
\* successful login included, changes a bucket.
C31_LoginConsumesBeforeCredentials ==
    /\ [](\A r \in Slots :
            reqs[r].in.route = "login" =>
                /\ (reqs[r].found # <<>> \/ reqs[r].admitted \/ reqs[r].pc = "bcrypt")
                      => (reqs[r].nConsume = 1 /\ reqs[r].lim.kind = "ok")
                /\ LoginCounted(reqs[r]) =>
                      /\ reqs[r].lim.consumedPoints = reqs[r].nth
                      /\ (reqs[r].lim.kind = "reject")
                            <=> (reqs[r].nth > loginLimiter.points)
                /\ (LoginCounted(reqs[r]) /\ reqs[r].pc = "done") =>
                      (reqs[r].resp.status = 429)
                            <=> (reqs[r].nth > loginLimiter.points))
    /\ [][\A r \in Slots :
            /\ (reqs[r].in.route = "login" /\ ConsumesOn(r, Bucket(r))) =>
                  /\ Bucket(r) = <<"login_limit", <<reqs[r].in.ip>>>>
                  /\ buckets'[Bucket(r)].consumed = reqs'[r].nth
                  /\ reqs'[r].found = <<>>
            /\ (reqs[r].in.route = "login" /\ reqs[r].pc \in {"limited", "bcrypt"}
                  /\ reqs'[r] # reqs[r]) => buckets' = buckets]_vars

\* A login with the right password is rejected with 429 in a window in which
\* a login has succeeded
C31_Witness ==
    \E r \in Slots :
        /\ reqs[r].in.route = "login"
        /\ reqs[r].in.username = "admin"
        /\ reqs[r].in.password = "password123"
        /\ reqs[r].pc = "done"
        /\ reqs[r].resp.status = 429
        /\ Bucket(r) \in DOMAIN windows
        /\ windows[Bucket(r)].id = reqs[r].win
        /\ \E i \in issued : i.at >= windows[Bucket(r)].start

\* A data request whose token is missing, malformed, forged or expired
Unauthenticated(req) ==
    /\ req.in.route = "sales"
    /\ req.pc # "idle"
    /\ req.user = <<>>

\* C33: a data request without a valid token is never rate limited.  It is
\* answered 401 or 403 by authenticateToken, never 429, however many of them
\* came before; no consume is sent for it and no bucket changes on its steps,
\* so the buckets of the authenticated identities are what they were.
C33_UnauthenticatedNeverLimited ==
    /\ [](\A r \in Slots :
            Unauthenticated(reqs[r]) =>
                /\ reqs[r].pc = "done"
                /\ reqs[r].resp.status \in {401, 403}
                /\ reqs[r].resp.status = 401 <=> reqs[r].in.auth.shape # "bearer"
                /\ reqs[r].nConsume = 0
                /\ reqs[r].limiter = ""
                /\ reqs[r].lim = NoReply)
    /\ [][\A r \in Slots :
            (SalesArrives(r) /\ ~JwtVerify(reqs'[r].in.auth.tok, config.jwtSecret, clock))
                => /\ Unauthenticated(reqs'[r])
                   /\ buckets' = buckets
                   /\ windows' = windows]_vars
    /\ [][\A r \in Slots :
            (Unauthenticated(reqs[r]) /\ reqs'[r] # reqs[r])
                => /\ buckets' = buckets
                   /\ windows' = windows]_vars

\* A forged token was refused with 403 while the identity's data bucket,
\* filled by its own requests, stands as it was
C33_Witness ==
    \E r \in Slots :
        /\ Unauthenticated(reqs[r])
        /\ reqs[r].in.auth.shape = "bearer"
        /\ reqs[r].in.auth.tok.username = "admin"
        /\ reqs[r].resp.status = 403
        /\ <<"sales_limit", <<reqs[r].in.ip, "_", "admin">>>> \in DOMAIN buckets
        /\ buckets[<<"sales_limit", <<reqs[r].in.ip, "_", "admin">>>>].consumed
              = salesLimiter.points

\* The statuses each route answers with
StatusesOf(route) ==
    IF route = "login" THEN {200, 401, 429, 500}
    ELSE {200, 400, 401, 403, 429, 500}

\* C32 as claimed: every request to /login and /api/sales gets exactly one
\* response.  None ends unanswered; the response is written in the step that
\* ends the request and is not written again; its status is one of 200, 401,
\* 429, 500 for /login and of 200, 400, 401, 403, 429, 500 for /api/sales.
C32_ExactlyOneResponse ==
    /\ [](\A r \in Slots :
            reqs[r].in.route \in {"login", "sales"} =>
                /\ reqs[r].pc # "aborted"
                /\ reqs[r].pc = "done" => reqs[r].resp.status \in StatusesOf(reqs[r].in.route)
                /\ reqs[r].pc # "done" => reqs[r].resp = NoResp)
    /\ [][\A r \in Slots :
            reqs[r].pc = "done" => (reqs'[r] = reqs[r] \/ reqs'[r] = Idle)]_vars

====
